---------------------------- MODULE Spec2Model ----------------------------
(***************************************************************************)
(* A model of schema_replicator: DDLApplier.apply_ddl (src/applier.py)     *)
(* and DDLExtractor (src/schema_replicator/extractor.py).                  *)
(*                                                                         *)
(* A statement is a sequence of characters.  Positions in a statement list *)
(* are 1-based here (TLA+ sequences); statement k of the 0-indexed prose   *)
(* is position k+1.                                                        *)
(***************************************************************************)
EXTENDS Integers, Sequences, FiniteSets

\* ------------------------------------------------------------------ bounds
MaxStmts == 3
MaxCols == 3
MaxIndexes == 2
MaxConstraints == 2

\* ------------------------------------------------------- program constants
\* stmt[:50] in the "Executing DDL" record
LogPrefixLen == 50

\* ---------------------------------------------------------------- helpers
Min(a, b) == IF a < b THEN a ELSE b

Range(s) == {s[n] : n \in 1..Len(s)}

\* characters str.strip() removes
Whitespace == {" ", "\n", "\t"}

\* statement texts the caller may pass: empty, whitespace-only, plain,
\* padded with whitespace
StmtTexts == { <<>>, <<" ", "\n">>, <<"A">>, <<" ", "B", " ">> }

RECURSIVE LStrip(_)
LStrip(s) == IF s # <<>> /\ Head(s) \in Whitespace THEN LStrip(Tail(s)) ELSE s

RECURSIVE RStrip(_)
RStrip(s) ==
    IF s # <<>> /\ s[Len(s)] \in Whitespace
    THEN RStrip(SubSeq(s, 1, Len(s) - 1))
    ELSE s

\* str.strip()
Strip(s) == RStrip(LStrip(s))

\* a plausible slip: `if not stmt` without the strip()
IsBlankNoStrip(stmt) == stmt = <<>>

\* `not stmt.strip()`
IsBlank(stmt) == Strip(stmt) = <<>>

\* stmt[:50]
Prefix(stmt) == SubSeq(stmt, 1, Min(LogPrefixLen, Len(stmt)))

VARIABLES
    \* ---- apply_ddl
    ddl_statements,  \* the argument of apply_ddl
    failing,         \* positions whose execution the database rejects
    transactional,   \* whether the target rolls DDL back with the transaction
    pc,              \* position of the call
    cursor,          \* position of `stmt` in the for loop
    conn,            \* the connection of engine.connect()
    txn,             \* the transaction of conn.begin()
    executed,        \* conn.execute calls so far: [pos, outcome]
    log,             \* logger records so far
    pending,         \* statements applied inside the open transaction
    durable,         \* statements applied for good on the target
    raised,          \* position whose error reached the caller, 0: none
    \* ---- DDLExtractor
    catalog,         \* the live catalog's description of the table
    base_ddl,        \* result of get_table_base_ddl
    phase2           \* result of get_constraints_and_indexes_ddl

applyVars == <<ddl_statements, failing, transactional, pc, cursor, conn, txn,
               executed, log, pending, durable, raised>>
extractVars == <<catalog, base_ddl, phase2>>
vars == <<applyVars, extractVars>>


\* ----------------------------------------------------------- DDLExtractor
\* The dialect compiler (CreateTable, CreateIndex, AddConstraint .compile) is
\* the library's: a statement is kept as the operation and the elements it
\* was compiled from.  NotCalled marks a method that has not returned yet.
NotCalled == <<>>

None == "None"

\* columns the catalog may report
col_id ==
    [name |-> "id", type |-> "INTEGER", nullable |-> FALSE, primary_key |-> TRUE,
     autoincrement |-> "True", default |-> None, server_default |-> None,
     comment |-> None]
col_customer_id ==
    [name |-> "customer_id", type |-> "INTEGER", nullable |-> TRUE,
     primary_key |-> FALSE, autoincrement |-> "False", default |-> None,
     server_default |-> None, comment |-> None]
col_total ==
    [name |-> "total", type |-> "NUMERIC", nullable |-> FALSE,
     primary_key |-> FALSE, autoincrement |-> "False", default |-> None,
     server_default |-> "0", comment |-> None]
col_note ==
    [name |-> "note", type |-> "VARCHAR", nullable |-> TRUE,
     primary_key |-> FALSE, autoincrement |-> "auto", default |-> "n/a",
     server_default |-> None, comment |-> "free text"]
ColumnPool == {col_id, col_customer_id, col_total, col_note}

\* indexes the catalog may report
ix_customer == [name |-> "ix_customer", columns |-> <<"customer_id">>, unique |-> FALSE]
ix_total == [name |-> "ix_total", columns |-> <<"total">>, unique |-> TRUE]
IndexPool == {ix_customer, ix_total}

\* constraints the catalog may report besides the primary key
fk_customer ==
    [kind |-> "ForeignKey", name |-> "fk_customer", columns |-> <<"customer_id">>,
     ref_table |-> "customers", ref_columns |-> <<"id">>]
uq_id ==
    [kind |-> "Unique", name |-> "uq_id", columns |-> <<"id">>,
     ref_table |-> None, ref_columns |-> <<>>]
ck_total ==
    [kind |-> "Check", name |-> "ck_total", columns |-> <<"total">>,
     ref_table |-> None, ref_columns |-> <<>>]
\* a Constraint subclass that is none of the four the method imports
ex_total ==
    [kind |-> "Exclude", name |-> "ex_total", columns |-> <<"total">>,
     ref_table |-> None, ref_columns |-> <<>>]
ConstraintPool == {fk_customer, uq_id, ck_total, ex_total}

SupportedKinds == {"PrimaryKey", "ForeignKey", "Unique", "Check"}

DistinctSeqs(S, lo, hi) ==
    {s \in UNION {[1..m -> S] : m \in lo..hi} :
        \A a, b \in 1..Len(s) : a # b => s[a] # s[b]}

ColumnNames(columns) == {columns[n].name : n \in 1..Len(columns)}

\* what the live catalog can hold: a table of distinct columns, with indexes
\* and constraints over columns of the table, each in the order the
\* inspector reports them
Catalogs ==
    {[name |-> "orders", columns |-> cols, indexes |-> ixs, constraints |-> cons] :
        cols \in DistinctSeqs(ColumnPool, 1, MaxCols),
        ixs \in DistinctSeqs(IndexPool, 0, MaxIndexes),
        cons \in DistinctSeqs(ConstraintPool, 0, MaxConstraints)}

ValidCatalog(c) ==
    /\ \A n \in 1..Len(c.indexes) : Range(c.indexes[n].columns) \subseteq ColumnNames(c.columns)
    /\ \A n \in 1..Len(c.constraints) :
          Range(c.constraints[n].columns) \subseteq ColumnNames(c.columns)

\* the PrimaryKeyConstraint every Table carries: the columns flagged primary_key
PrimaryKeyOf(columns) ==
    [kind |-> "PrimaryKey", name |-> None,
     columns |-> [n \in 1..Len(SelectSeq(columns, LAMBDA c : c.primary_key)) |->
                    SelectSeq(columns, LAMBDA c : c.primary_key)[n].name],
     ref_table |-> None, ref_columns |-> <<>>]

\* Table(table_name, metadata, autoload_with=engine): the reflected table.
\* Columns keep the catalog's order and carry the ForeignKey objects of the
\* foreign keys they take part in; Table.indexes and Table.constraints are
\* Python sets.
Reflect(c) ==
    [name |-> c.name,
     columns |->
        [n \in 1..Len(c.columns) |->
            [name |-> c.columns[n].name,
             type |-> c.columns[n].type,
             nullable |-> c.columns[n].nullable,
             primary_key |-> c.columns[n].primary_key,
             autoincrement |-> c.columns[n].autoincrement,
             default |-> c.columns[n].default,
             server_default |-> c.columns[n].server_default,
             comment |-> c.columns[n].comment,
             foreign_keys |->
                {k \in Range(c.constraints) :
                    k.kind = "ForeignKey" /\ c.columns[n].name \in Range(k.columns)}]],
     indexes |-> Range(c.indexes),
     constraints |-> Range(c.constraints) \cup {PrimaryKeyOf(c.columns)}]

\* a plausible slip: the deprecated col.copy(), which keeps the foreign keys
new_col_copy(col) == col

\* new_col = Column(col.name, col.type, nullable=..., primary_key=..., ...)
new_col(col) ==
    [name |-> col.name,
     type |-> col.type,
     nullable |-> col.nullable,
     primary_key |-> col.primary_key,
     autoincrement |-> col.autoincrement,
     default |-> col.default,
     server_default |-> col.server_default,
     comment |-> col.comment,
     foreign_keys |-> {}]

\* clean_table = Table(table_name, clean_metadata), then append_column for
\* each column of the reflected table in order.  A column's ForeignKey
\* objects put a ForeignKeyConstraint on the table it is appended to.
clean_table(table) ==
    LET cols == [n \in 1..Len(table.columns) |-> new_col(table.columns[n])]
    IN  [name |-> table.name,
         columns |-> cols,
         indexes |-> {},
         constraints |->
            {PrimaryKeyOf(cols)} \cup UNION {cols[n].foreign_keys : n \in 1..Len(cols)}]

\* what CreateTable writes for one column
ColumnSpec(col) ==
    [name |-> col.name, type |-> col.type, nullable |-> col.nullable,
     primary_key |-> col.primary_key, autoincrement |-> col.autoincrement,
     default |-> col.default, server_default |-> col.server_default,
     comment |-> col.comment]

\* str(CreateTable(t).compile(...)).strip() + ";": the columns in order and
\* the table-level clauses of the table's constraints (an empty primary key
\* writes none)
CreateTable(t) ==
    [op |-> "CREATE TABLE",
     table |-> t.name,
     columns |-> [n \in 1..Len(t.columns) |-> ColumnSpec(t.columns[n])],
     clauses |-> {k \in t.constraints : k.kind # "PrimaryKey" \/ k.columns # <<>>},
     terminator |-> ";"]

\* DDLExtractor.get_table_base_ddl
get_table_base_ddl(c) == CreateTable(clean_table(Reflect(c)))

\* str(CreateIndex(index).compile(engine)) + ";"
CreateIndex(table, index) ==
    [op |-> "CREATE INDEX", table |-> table.name, element |-> index, terminator |-> ";"]

\* str(AddConstraint(const).compile(engine)) + ";"
AddConstraint(table, const) ==
    [op |-> "ALTER TABLE ADD CONSTRAINT", table |-> table.name, element |-> const,
     terminator |-> ";"]

\* a plausible slip: no constraint is skipped
SkipsNothing(table, const) == FALSE

\* a plausible slip: a unique constraint over primary-key columns is skipped too
SkipsUniqueOnPrimaryKey(table, const) ==
    \/ const.kind = "PrimaryKey"
    \/ /\ const.kind = "Unique"
       /\ Range(const.columns) \subseteq Range(PrimaryKeyOf(table.columns).columns)

\* if isinstance(const, PrimaryKeyConstraint): continue
SkipsConstraint(table, const) == const.kind = "PrimaryKey"

\* the two loops, over the sets in the order their iteration yields
ConstraintsAndIndexes(table, ixOrder, conOrder) ==
    LET kept == SelectSeq(conOrder, LAMBDA k : ~SkipsConstraint(table, k))
    IN  [n \in 1..Len(ixOrder) |-> CreateIndex(table, ixOrder[n])]
        \o [n \in 1..Len(kept) |-> AddConstraint(table, kept[n])]

\* a plausible variant: a guard that rejects the kinds the method does not know
get_constraints_and_indexes_ddl_guarded(table, ixOrder, conOrder) ==
    IF \E k \in Range(conOrder) : k.kind \notin SupportedKinds
    THEN [raised |-> "UnsupportedConstraintKind", statements |-> <<>>]
    ELSE [raised |-> None,
          statements |-> ConstraintsAndIndexes(table, ixOrder, conOrder)]

\* DDLExtractor.get_constraints_and_indexes_ddl: it has no raise of its own
get_constraints_and_indexes_ddl(table, ixOrder, conOrder) ==
    [raised |-> None, statements |-> ConstraintsAndIndexes(table, ixOrder, conOrder)]

\* the orders in which iterating a Python set can yield its elements
Orderings(S) == {s \in [1..Cardinality(S) -> S] : Range(s) = S}

ExtractIdle ==
    /\ base_ddl = NotCalled
    /\ phase2 = NotCalled

\* ------------------------------------------------------------- DDLApplier
SeqsUpTo(S, n) == UNION {[1..m -> S] : m \in 0..n}

InfoRecord(pos) ==
    [level |-> "INFO", msg |-> "Executing DDL", text |-> Prefix(ddl_statements[pos]),
     pos |-> pos, outcome |-> "none"]

ErrorRecord(pos) ==
    [level |-> "ERROR", msg |-> "Error executing DDL", text |-> ddl_statements[pos],
     pos |-> pos, outcome |-> "failed"]

\* with self.engine.connect() as conn: with conn.begin():
Begin ==
    /\ pc = "Idle"
    /\ conn' = "open"
    /\ txn' = "active"
    /\ cursor' = 1
    /\ pc' = "Loop"
    /\ UNCHANGED <<extractVars, ddl_statements, failing, transactional, executed, log,
                   pending, durable, raised>>

\* if not stmt.strip(): continue
SkipBlank ==
    /\ pc = "Loop"
    /\ cursor <= Len(ddl_statements)
    /\ IsBlank(ddl_statements[cursor])
    /\ cursor' = cursor + 1
    /\ UNCHANGED <<extractVars, ddl_statements, failing, transactional, pc, conn, txn,
                   executed, log, pending, durable, raised>>

\* logger.info(f"Executing DDL: {stmt[:50]}...")
LogExecuting ==
    /\ pc = "Loop"
    /\ cursor <= Len(ddl_statements)
    /\ ~IsBlank(ddl_statements[cursor])
    /\ log' = Append(log, InfoRecord(cursor))
    /\ pc' = "Execute"
    /\ UNCHANGED <<extractVars, ddl_statements, failing, transactional, cursor, conn, txn,
                   executed, pending, durable, raised>>

\* conn.execute(text(stmt)) returns: the statement takes effect, inside the
\* transaction where the target has transactional DDL, at once otherwise
ExecuteOk ==
    /\ pc = "Execute"
    /\ cursor \notin failing
    /\ executed' = Append(executed, [pos |-> cursor, outcome |-> "succeeded"])
    /\ IF transactional
       THEN pending' = Append(pending, cursor) /\ durable' = durable
       ELSE durable' = Append(durable, cursor) /\ pending' = pending
    /\ cursor' = cursor + 1
    /\ pc' = "Loop"
    /\ UNCHANGED <<extractVars, ddl_statements, failing, transactional, conn, txn, log, raised>>

\* conn.execute(text(stmt)) raises: control enters `except Exception as e`
ExecuteFail ==
    /\ pc = "Execute"
    /\ cursor \in failing
    /\ executed' = Append(executed, [pos |-> cursor, outcome |-> "failed"])
    /\ pc' = "Except"
    /\ UNCHANGED <<extractVars, ddl_statements, failing, transactional, cursor, conn, txn,
                   log, pending, durable, raised>>

\* a plausible slip: the handler re-raises without logging
LogErrorMissing ==
    /\ pc = "Except"
    /\ pc' = "Raise"
    /\ UNCHANGED <<extractVars, ddl_statements, failing, transactional, cursor, conn, txn,
                   executed, log, pending, durable, raised>>

\* logger.error(f"Error executing DDL: {stmt}\nError: {e}")
LogError ==
    /\ pc = "Except"
    /\ log' = Append(log, ErrorRecord(cursor))
    /\ pc' = "Raise"
    /\ UNCHANGED <<extractVars, ddl_statements, failing, transactional, cursor, conn, txn,
                   executed, pending, durable, raised>>

\* a plausible slip: the handler swallows the error and the loop goes on
RaiseSwallowed ==
    /\ pc = "Raise"
    /\ cursor' = cursor + 1
    /\ pc' = "Loop"
    /\ UNCHANGED <<extractVars, ddl_statements, failing, transactional, conn, txn,
                   executed, log, pending, durable, raised>>

\* a plausible slip: the handler retries the statement
RaiseRetry ==
    /\ pc = "Raise"
    /\ Len(executed) < 2 * MaxStmts
    /\ pc' = "Execute"
    /\ UNCHANGED <<extractVars, ddl_statements, failing, transactional, cursor, conn, txn,
                   executed, log, pending, durable, raised>>

\* a plausible slip: the transaction is committed on the error path as well
RaiseCommits ==
    /\ pc = "Raise"
    /\ txn' = "committed"
    /\ durable' = durable \o pending
    /\ pending' = <<>>
    /\ pc' = "Unwind"
    /\ UNCHANGED <<extractVars, ddl_statements, failing, transactional, cursor, conn,
                   executed, log, raised>>

\* raise e: the exception leaves the `with conn.begin()` block, whose exit
\* rolls the transaction back
Raise ==
    /\ pc = "Raise"
    /\ txn' = "rolled_back"
    /\ pending' = <<>>
    /\ pc' = "Unwind"
    /\ UNCHANGED <<extractVars, ddl_statements, failing, transactional, cursor, conn,
                   executed, log, durable, raised>>

\* the exception leaves the `with self.engine.connect()` block, which closes
\* the connection, and reaches the caller
Propagate ==
    /\ pc = "Unwind"
    /\ conn' = "closed"
    /\ raised' = cursor
    /\ pc' = "Aborted"
    /\ UNCHANGED <<extractVars, ddl_statements, failing, transactional, cursor, txn,
                   executed, log, pending, durable>>

\* the loop is exhausted: the exit of `with conn.begin()` commits, the exit of
\* `with self.engine.connect()` closes the connection, apply_ddl returns
Commit ==
    /\ pc = "Loop"
    /\ cursor > Len(ddl_statements)
    /\ txn' = "committed"
    /\ durable' = durable \o pending
    /\ pending' = <<>>
    /\ conn' = "closed"
    /\ pc' = "Committed"
    /\ UNCHANGED <<extractVars, ddl_statements, failing, transactional, cursor, executed,
                   log, raised>>

ApplyIdle ==
    /\ pc = "Idle"
    /\ cursor = 0
    /\ conn = "closed"
    /\ txn = "none"
    /\ executed = <<>>
    /\ log = <<>>
    /\ pending = <<>>
    /\ durable = <<>>
    /\ raised = 0


InitApply ==
    /\ ddl_statements \in SeqsUpTo(StmtTexts, MaxStmts)
    /\ failing \in SUBSET (1..Len(ddl_statements))
    /\ transactional \in BOOLEAN
    /\ ApplyIdle
    /\ catalog = <<>>
    /\ ExtractIdle

\* DDLApplier.apply_ddl, step by step
NextApply ==
    \/ Begin
    \/ SkipBlank
    \/ LogExecuting
    \/ ExecuteOk
    \/ ExecuteFail
    \/ LogError
    \/ Raise
    \/ Propagate
    \/ Commit

SpecApply == InitApply /\ [][NextApply]_vars

\* the call is synchronous and blocking: it runs until it returns or raises
FairSpecApply == SpecApply /\ WF_vars(NextApply)


\* ------------------------------------------------- properties of apply_ddl
Terminal == {"Committed", "Aborted"}

\* empty or whitespace-only, stated without str.strip()
AllWhitespace(s) == \A n \in 1..Len(s) : s[n] \in Whitespace

Positions == 1..Len(ddl_statements)

NonBlank == {p \in Positions : ~AllWhitespace(ddl_statements[p])}

\* k is the first statement whose execution fails
FirstFailure(k) ==
    /\ k \in NonBlank \cap failing
    /\ \A j \in NonBlank : j < k => j \notin failing

\* the n-th non-blank position
RECURSIVE NthNonBlank(_)
NthNonBlank(n) ==
    IF n = 1
    THEN CHOOSE p \in NonBlank : \A q \in NonBlank : p <= q
    ELSE CHOOSE p \in NonBlank :
            /\ p > NthNonBlank(n - 1)
            /\ \A q \in NonBlank : q > NthNonBlank(n - 1) => p <= q

\* what a run over the list with its blank entries removed executes: the
\* non-blank statements in order, up to and including the first that fails
ExpectedExecuted ==
    LET nb == [n \in 1..Cardinality(NonBlank) |-> NthNonBlank(n)]
        stop == IF \E n \in 1..Len(nb) : nb[n] \in failing
                THEN CHOOSE n \in 1..Len(nb) :
                        /\ nb[n] \in failing
                        /\ \A m \in 1..(n - 1) : nb[m] \notin failing
                ELSE Len(nb)
    IN  [n \in 1..stop |->
            [pos |-> nb[n],
             outcome |-> IF nb[n] \in failing THEN "failed" ELSE "succeeded"]]

AllSucceeded ==
    \A p \in NonBlank : [pos |-> p, outcome |-> "succeeded"] \in Range(executed)

\* C1: when statement k is the first whose execution fails, apply_ddl never
\* returns normally, the error it raises and the error record it writes are
\* those of statement k, and no statement after k is logged or executed.
C1_StopsAtFirstFailure ==
    \A k \in Positions : FirstFailure(k) =>
        /\ pc # "Committed"
        /\ raised \in {0, k}
        /\ pc = "Aborted" =>
              /\ raised = k
              /\ \E n \in 1..Len(log) :
                    /\ log[n].level = "ERROR"
                    /\ log[n].pos = k
                    /\ log[n].text = ddl_statements[k]
        /\ \A n \in 1..Len(executed) : executed[n].pos <= k
        /\ \A n \in 1..Len(log) : log[n].pos <= k
        /\ \A n \in 1..Len(pending) : pending[n] < k
        /\ \A n \in 1..Len(durable) : durable[n] < k

\* the second of three statements failed after the first succeeded, and a
\* non-blank third statement was left alone
C1_Witness ==
    /\ pc = "Aborted"
    /\ Len(ddl_statements) = 3
    /\ raised = 2
    /\ 3 \in NonBlank
    /\ executed = << [pos |-> 1, outcome |-> "succeeded"],
                     [pos |-> 2, outcome |-> "failed"] >>

\* C2: on a target with transactional DDL the transaction is committed if
\* and only if every non-blank statement executed successfully; a failure
\* rolls it back before the error reaches the caller; after the call either
\* all statements of the sequence are applied or none is.
C2_AllOrNothing ==
    transactional =>
        /\ txn = "committed" => AllSucceeded
        /\ pc \in Terminal /\ AllSucceeded => txn = "committed"
        /\ raised # 0 => txn = "rolled_back" /\ pending = <<>>
        /\ pc = "Committed" => Range(durable) = NonBlank
        /\ pc = "Aborted" => durable = <<>>
        /\ pc \notin Terminal => durable = <<>>

\* two statements took effect inside the transaction, the third failed, and
\* nothing is left on the target
C2_Witness ==
    /\ transactional
    /\ pc = "Aborted"
    /\ Len(executed) = 3
    /\ executed[1].outcome = "succeeded"
    /\ executed[2].outcome = "succeeded"
    /\ txn = "rolled_back"
    /\ durable = <<>>

\* C7: blank entries are never logged, never executed and never the cause of
\* an error, and the call executes exactly what it would execute on the list
\* with the blank entries removed.
C7_BlankSkipped ==
    /\ \A n \in 1..Len(executed) : executed[n].pos \in NonBlank
    /\ \A n \in 1..Len(log) : log[n].pos \in NonBlank
    /\ raised # 0 => raised \in NonBlank
    /\ pc \in Terminal => executed = ExpectedExecuted
    /\ pc = "Committed" <=> (pc \in Terminal /\ NonBlank \cap failing = {})

\* a whitespace-only entry that the database would reject sat between two
\* statements that were both executed
C7_Witness ==
    /\ pc = "Committed"
    /\ Len(ddl_statements) = 3
    /\ ddl_statements[2] = <<" ", "\n">>
    /\ 2 \in failing
    /\ executed = << [pos |-> 1, outcome |-> "succeeded"],
                     [pos |-> 3, outcome |-> "succeeded"] >>

RecordsAbout(p) == {n \in 1..Len(log) : log[n].pos = p}

\* C8 as stated: each attempted statement has exactly one record, and that
\* record carries the statement's outcome.
C8_OneRecordWithOutcome ==
    pc \in Terminal =>
        \A n \in 1..Len(executed) :
            /\ Cardinality(RecordsAbout(executed[n].pos)) = 1
            /\ \A m \in RecordsAbout(executed[n].pos) :
                  log[m].outcome = executed[n].outcome

InfoRecords == SelectSeq(log, LAMBDA r : r.level = "INFO")
ErrorRecords == SelectSeq(log, LAMBDA r : r.level = "ERROR")

\* C8 amended: one "Executing" record per attempted statement, written before
\* the statement is executed and carrying its prefix but no outcome; one more
\* record, an error record with the whole statement, for the statement that
\* failed, written before the error leaves the handler.
C8_ExecutingThenError ==
    /\ Len(InfoRecords) = Len(executed) + (IF pc = "Execute" THEN 1 ELSE 0)
    /\ \A n \in 1..Len(executed) :
          /\ InfoRecords[n].pos = executed[n].pos
          /\ InfoRecords[n].text = Prefix(ddl_statements[executed[n].pos])
          /\ InfoRecords[n].outcome = "none"
    /\ Len(ErrorRecords) =
          Cardinality({n \in 1..Len(executed) : executed[n].outcome = "failed"})
          - (IF pc = "Except" THEN 1 ELSE 0)
    /\ pc \in {"Raise", "Unwind", "Aborted"} =>
          /\ Len(ErrorRecords) = 1
          /\ log[Len(log)] = ErrorRecords[1]
          /\ ErrorRecords[1].pos = cursor
          /\ ErrorRecords[1].text = ddl_statements[cursor]
          /\ ErrorRecords[1].outcome = "failed"
    /\ raised # 0 =>
          /\ Len(ErrorRecords) = 1
          /\ ErrorRecords[1].pos = raised
          /\ \A n \in 1..Len(executed) :
                executed[n].outcome = "succeeded" <=> executed[n].pos # raised

\* the third statement failed: three "Executing" records and one error record
C8_Witness ==
    /\ pc = "Aborted"
    /\ raised = 3
    /\ Len(InfoRecords) = 3
    /\ Len(ErrorRecords) = 1
    /\ Len(log) = 4

C9_Order ==
    \/ pc = "Idle" /\ pc' = "Loop" /\ cursor' = 1
    \/ pc = "Loop" /\ pc' = "Loop" /\ cursor' = cursor + 1
    \/ pc = "Loop" /\ pc' = "Execute" /\ cursor' = cursor
    \/ pc = "Execute" /\ pc' = "Loop" /\ cursor' = cursor + 1
    \/ pc = "Execute" /\ pc' = "Except" /\ cursor' = cursor
    \/ pc = "Except" /\ pc' = "Raise" /\ cursor' = cursor
    \/ pc = "Raise" /\ pc' = "Unwind" /\ cursor' = cursor
    \/ pc = "Unwind" /\ pc' = "Aborted" /\ cursor' = cursor
    \/ pc = "Loop" /\ pc' = "Committed" /\ cursor = Len(ddl_statements) + 1

C9_Step ==
    /\ C9_Order
    /\ \/ executed' = executed
       \/ /\ pc = "Execute"
          /\ Len(executed') = Len(executed) + 1
          /\ SubSeq(executed', 1, Len(executed)) = executed
          /\ executed'[Len(executed')].pos = cursor
    /\ pc \in Terminal => UNCHANGED vars
    /\ pc' = "Aborted" => executed[Len(executed)] = [pos |-> cursor, outcome |-> "failed"]

C9_OnceInOrder ==
    \A m, n \in 1..Len(executed) : m < n => executed[m].pos < executed[n].pos

\* C9: the call moves Idle, Executing(0), ..., then Committed or Aborted:
\* statements are executed one at a time in increasing order, each at most
\* once, and the call always ends in one terminal state, where it stays.
C9_StateMachine ==
    /\ [][C9_Step]_vars
    /\ []C9_OnceInOrder
    /\ <>(pc \in Terminal)
    /\ [](pc \in Terminal => [](pc \in Terminal))

\* all three statements of a list were executed, the last one failing
C9_Witness ==
    /\ pc = "Aborted"
    /\ Len(ddl_statements) = 3
    /\ Len(executed) = 3
    /\ executed[3] = [pos |-> 3, outcome |-> "failed"]
    /\ conn = "closed"


\* -------------------------------------------------- DDLExtractor, as calls
GetTableBaseDdl ==
    /\ base_ddl = NotCalled
    /\ base_ddl' = get_table_base_ddl(catalog)
    /\ UNCHANGED <<applyVars, catalog, phase2>>

GetConstraintsAndIndexesDdl ==
    /\ phase2 = NotCalled
    /\ \E ixOrder \in Orderings(Reflect(catalog).indexes),
          conOrder \in Orderings(Reflect(catalog).constraints) :
            phase2' = get_constraints_and_indexes_ddl(Reflect(catalog), ixOrder, conOrder)
    /\ UNCHANGED <<applyVars, catalog, base_ddl>>

InitExtract ==
    /\ catalog \in {c \in Catalogs : ValidCatalog(c)}
    /\ ExtractIdle
    /\ ddl_statements = <<>>
    /\ failing = {}
    /\ transactional = TRUE
    /\ ApplyIdle

\* the two methods of DDLExtractor, called in either order
NextExtract ==
    \/ GetTableBaseDdl
    \/ GetConstraintsAndIndexesDdl

SpecExtract == InitExtract /\ [][NextExtract]_vars


\* ---------------------------------------------- properties of DDLExtractor
IsCreateIndex(st, ix) == st.op = "CREATE INDEX" /\ st.element = ix

IsAddConstraint(st, k) == st.op = "ALTER TABLE ADD CONSTRAINT" /\ st.element = k

\* how many statements of stmts satisfy Test
Count(stmts, Test(_)) == Cardinality({m \in 1..Len(stmts) : Test(stmts[m])})

C4_CatalogOrder ==
    phase2 # NotCalled =>
        phase2.statements =
            [n \in 1..Len(catalog.indexes) |->
                CreateIndex(catalog, catalog.indexes[n])]
            \o [n \in 1..Len(catalog.constraints) |->
                AddConstraint(catalog, catalog.constraints[n])]

\* the `orders` table of the scenario
IsOrders(c) ==
    /\ c.name = "orders"
    /\ c.columns = <<col_id, col_customer_id, col_total>>
    /\ c.indexes = <<ix_customer>>
    /\ Range(c.constraints) = {fk_customer, uq_id}
    /\ Len(c.constraints) = 2

OrdersBase ==
    base_ddl # NotCalled =>
        /\ base_ddl.op = "CREATE TABLE"
        /\ base_ddl.table = "orders"
        /\ [n \in 1..Len(base_ddl.columns) |-> base_ddl.columns[n].name]
              = <<"id", "customer_id", "total">>
        /\ \A k \in base_ddl.clauses : k.kind \notin {"ForeignKey", "Unique"}

Unsupported(c) == {k \in Range(c.constraints) : k.kind \notin SupportedKinds}

C10_BaseColumns ==
    base_ddl # NotCalled =>
        /\ base_ddl.op = "CREATE TABLE"
        /\ base_ddl.table = catalog.name
        /\ Len(base_ddl.columns) = Len(catalog.columns)
        /\ \A n \in 1..Len(catalog.columns) :
              /\ base_ddl.columns[n].name = catalog.columns[n].name
              /\ base_ddl.columns[n].type = catalog.columns[n].type
              /\ base_ddl.columns[n].nullable = catalog.columns[n].nullable
              /\ base_ddl.columns[n].primary_key = catalog.columns[n].primary_key
              /\ base_ddl.columns[n].autoincrement = catalog.columns[n].autoincrement
              /\ base_ddl.columns[n].default = catalog.columns[n].default
              /\ base_ddl.columns[n].server_default = catalog.columns[n].server_default
        /\ \A k \in base_ddl.clauses : k.kind # "ForeignKey"
        /\ base_ddl.clauses \subseteq {PrimaryKeyOf(catalog.columns)}

\* the base statement was produced for a three-column table whose second
\* column carries a foreign key
C10_Witness ==
    /\ base_ddl # NotCalled
    /\ catalog.columns = <<col_note, col_customer_id, col_id>>
    /\ fk_customer \in Range(catalog.constraints)
    /\ Reflect(catalog).columns[2].foreign_keys = {fk_customer}
    /\ Len(base_ddl.columns) = 3

=============================================================================
